---------------------------- MODULE Spec2Model ----------------------------
(***************************************************************************)
(* Model of the pooled-token program `vulnerable_defi`                     *)
(* (src/demo-contract.rs): the persistent Pool account, the five           *)
(* instruction handlers, and the external token-transfer primitive they    *)
(* call (token::transfer), which may fail and may call back into the       *)
(* program before it returns.                                              *)
(*                                                                         *)
(* A handler that makes a transfer is two steps: up to the point where the *)
(* token program has moved the tokens and may call back, and from the      *)
(* transfer's return to the handler's own.  A handler that returns Err     *)
(* (the `?` after token::transfer) or panics fails the whole transaction,  *)
(* and the host discards everything the transaction did.                   *)
(*                                                                         *)
(* u64 is scaled down to Width bits; u64 arithmetic wraps modulo 2^Width   *)
(* when the program is built without overflow checks and panics when it is *)
(* built with them.                                                        *)
(***************************************************************************)
EXTENDS Integers, Sequences, FiniteSets, TLC

\* ------------------------------------------------------------------ bounds
Width == 3                      \* bits of the scaled-down u64
MaxReentries == 1               \* handlers invoked from inside transfers, per transaction
BalanceA == 3                   \* tokens user A starts with
BalanceU == 4                   \* tokens user U starts with

Modulus == 2 ^ Width
MaxU64 == Modulus - 1
U64 == 0 .. MaxU64

\* ------------------------------------------------------------ identities
Users == {"A", "U"}             \* signers; "A" is the pool's admin
PoolAccount == "pool"           \* the pool's custody token account
TokenAccounts == Users \cup {PoolAccount}

\* inputs the handlers are called with
DepositAmounts == {0, 3}
WithdrawAmounts == {3}
Rates == {0, MaxU64}
Principals == {1, 5}
Times == {4}

VARIABLES
    pool,            \* the persisted Pool account (lines 11-17)
    token,           \* balances of the token accounts in the token program
    stack,           \* handlers suspended inside token::transfer, outermost first
    last,            \* outcome of the handler that finished in the latest step
    ledger_sum,      \* initial supply + deposits made - withdrawals made, unbounded
    overflow_checks  \* whether the build panics on u64 overflow (TRUE) or wraps

vars == <<pool, token, stack, last, ledger_sum, overflow_checks>>

\* ----------------------------------------------------------- u64 arithmetic
\* `a + b` on u64: the wrapped value and whether the exact value overflowed
Add(a, b) == [val |-> (a + b) % Modulus, overflow |-> a + b > MaxU64]

\* `a - b` on u64
Sub(a, b) == [val |-> (a - b + Modulus) % Modulus, overflow |-> b > a]

\* `a * b` on u64
Mul(a, b) == [val |-> (a * b) % Modulus, overflow |-> a * b > MaxU64]

\* ledger_sum is the unbounded sum for as long as every total_supply stored
\* has equalled it, and Diverged (no u64) from the first one that has not
Diverged == MaxU64 - Modulus

Tracked(sum, written) ==
    IF ledger_sum # Diverged /\ sum = written THEN sum ELSE Diverged

\* --------------------------------------------------------------- records
\* no handler has finished in the step just taken
Pending ==
    [op |-> "none", caller |-> "none", amount |-> 0, time |-> 0,
     status |-> "none", code |-> "none", depth |-> 0, parent |-> "none",
     pre_pool |-> [total_supply |-> 0, interest_rate |-> 0, admin |-> "none",
                   emergency_withdraw_enabled |-> FALSE],
     pre_token |-> [a \in TokenAccounts |-> 0], pre_sum |-> 0,
     ts_at_transfer |-> 0, transfers |-> 0, sent |-> 0,
     called |-> {}, rewards |-> 0]

Depth == Len(stack)
Top == stack[Depth]
Parent == IF stack = <<>> THEN "none" ELSE Top.op

\* a handler can be invoked by a transaction when none is in flight, and from
\* inside the transfer of the innermost suspended handler
CanCall == IF stack = <<>> THEN TRUE ELSE stack[1].callbacks < MaxReentries

\* a handler entered now: what it was called with and the state it found
Entered(op, caller, amount) ==
    [Pending EXCEPT !.op = op, !.caller = caller, !.amount = amount,
                    !.depth = Depth, !.parent = Parent,
                    !.pre_pool = pool, !.pre_token = token,
                    !.pre_sum = ledger_sum]

\* --------------------------------------------------------------- transfer
\* outcomes of token::transfer(from -> to, amount): the token program rejects
\* a transfer the source cannot cover and may reject any other one
TransferOutcomes(from, amount) ==
    IF token[from] >= amount THEN {"ok", "fail"} ELSE {"fail"}

Moved(from, to, amount) ==
    [token EXCEPT ![from] = @ - amount, ![to] = @ + amount]

\* the frame of a handler suspended inside token::transfer: `r` is the handler
\* as it was entered, `ts` the total_supply at the time it invoked the transfer
Frame(r, ts) ==
    [op |-> r.op, caller |-> r.caller, amount |-> r.amount,
     pre_pool |-> r.pre_pool, pre_token |-> r.pre_token, pre_sum |-> r.pre_sum,
     ts_at_transfer |-> ts, callbacks |-> 0, called |-> {}]

\* the suspended handler `f` at depth `d`, as an outcome still to be decided
Suspended(f, d) ==
    [Pending EXCEPT !.op = f.op, !.caller = f.caller, !.amount = f.amount,
                    !.depth = d - 1,
                    !.parent = IF d > 1 THEN stack[d - 1].op ELSE "none",
                    !.pre_pool = f.pre_pool, !.pre_token = f.pre_token,
                    !.pre_sum = f.pre_sum,
                    !.ts_at_transfer = f.ts_at_transfer,
                    !.transfers = 1, !.sent = f.amount,
                    !.called = f.called]

\* the innermost suspended handler returning Ok
Returned == [Suspended(Top, Depth) EXCEPT !.status = "ok"]

\* ------------------------------------------------------------ failure path
\* the transaction's outermost handler: `r` itself when none is suspended
Outermost(r) == IF stack = <<>> THEN r ELSE Suspended(stack[1], 1)

\* a failure after which what the handler had stored before its transfer, and
\* what the transaction had moved, stays
KeptOnFailure(r) ==
    [pool |-> [pool EXCEPT !.total_supply = r.ts_at_transfer], token |-> token]

\* what a failed transaction leaves of the accounts
RolledBack(r) == [pool |-> Outermost(r).pre_pool, token |-> Outermost(r).pre_token]

\* A handler returns Err or panics: every handler in flight fails with it and
\* the accounts are as they were when the outermost one was entered.
Abort(r, code) ==
    /\ pool' = RolledBack(r).pool
    /\ token' = RolledBack(r).token
    /\ ledger_sum' = Outermost(r).pre_sum
    /\ stack' = <<>>
    /\ last' = [Outermost(r) EXCEPT !.status = "err", !.code = code, !.sent = 0]
    /\ UNCHANGED overflow_checks

\* the suspended handlers once handler `op` was invoked from inside the
\* innermost one's transfer
Called(op) ==
    [i \in DOMAIN stack |->
        [stack[i] EXCEPT !.callbacks = @ + 1,
                         !.called = IF i = Depth THEN @ \cup {op} ELSE @]]

\* the suspended handlers once the innermost one returned
Popped == SubSeq(stack, 1, Depth - 1)

\* ---------------------------------------------------------------- handlers
\* a set_interest_rate whose check of the authority is the wrong way round
set_interest_rate_admin_refused(caller, new_rate) ==
    /\ CanCall
    /\ IF caller = pool.admin
       THEN Abort(Entered("set_interest_rate", caller, new_rate), "Unauthorized")
       ELSE /\ pool' = [pool EXCEPT !.interest_rate = new_rate]
            /\ last' = [Entered("set_interest_rate", caller, new_rate) EXCEPT
                           !.status = "ok"]
            /\ stack' = Called("set_interest_rate")
            /\ UNCHANGED <<token, ledger_sum, overflow_checks>>

\* lines 19-27: no check of ctx.accounts.authority against pool.admin
set_interest_rate(caller, new_rate) ==
    /\ CanCall
    /\ pool' = [pool EXCEPT !.interest_rate = new_rate]
    /\ last' = [Entered("set_interest_rate", caller, new_rate) EXCEPT
                   !.status = "ok"]
    /\ stack' = Called("set_interest_rate")
    /\ UNCHANGED <<token, ledger_sum, overflow_checks>>

\* lines 30-48: total_supply + amount is stored, then the transfer user -> pool
\* is made with the user as authority; the handler is left inside it
deposit(caller, amount) ==
    /\ CanCall
    /\ LET r == Entered("deposit", caller, amount)
           sum == Add(pool.total_supply, amount)
       IN  IF sum.overflow /\ overflow_checks
           THEN Abort(r, "ArithmeticPanic")
           ELSE \E outcome \in TransferOutcomes(caller, amount) :
                  IF outcome = "fail"
                  THEN Abort([r EXCEPT !.ts_at_transfer = sum.val,
                                       !.transfers = 1], "TransferFailed")
                  ELSE /\ pool' = [pool EXCEPT !.total_supply = sum.val]
                       /\ ledger_sum' = Tracked(ledger_sum + amount, sum.val)
                       /\ token' = Moved(caller, PoolAccount, amount)
                       /\ stack' = Append(Called("deposit"), Frame(r, sum.val))
                       /\ last' = Pending
                       /\ UNCHANGED overflow_checks

\* lines 48-51: the transfer returned Ok, and so does the handler
deposit_return ==
    /\ stack # <<>>
    /\ Top.op = "deposit"
    /\ last' = Returned
    /\ stack' = Popped
    /\ UNCHANGED <<pool, token, ledger_sum, overflow_checks>>

\* lines 54-68: the transfer pool -> user comes first
withdraw(caller, amount) ==
    /\ CanCall
    /\ LET r == Entered("withdraw", caller, amount)
       IN  \E outcome \in TransferOutcomes(PoolAccount, amount) :
              IF outcome = "fail"
              THEN Abort([r EXCEPT !.ts_at_transfer = pool.total_supply,
                                   !.transfers = 1], "TransferFailed")
              ELSE /\ token' = Moved(PoolAccount, caller, amount)
                   /\ stack' = Append(Called("withdraw"), Frame(r, pool.total_supply))
                   /\ last' = Pending
                   /\ UNCHANGED <<pool, ledger_sum, overflow_checks>>

\* lines 68-74: the transfer returned Ok; total_supply - amount is stored
withdraw_return ==
    /\ stack # <<>>
    /\ Top.op = "withdraw"
    /\ LET diff == Sub(pool.total_supply, Top.amount)
       IN  IF diff.overflow /\ overflow_checks
           THEN Abort(Returned, "ArithmeticPanic")
           ELSE /\ pool' = [pool EXCEPT !.total_supply = diff.val]
                /\ ledger_sum' = Tracked(ledger_sum - Top.amount, diff.val)
                /\ last' = Returned
                /\ stack' = Popped
                /\ UNCHANGED <<token, overflow_checks>>

\* lines 77-92: with the flag set, the pool token account's whole balance goes
\* to the caller; with the flag clear the handler returns Ok at once
emergency_withdraw(caller) ==
    /\ CanCall
    /\ LET amount == token[PoolAccount]
           r == Entered("emergency_withdraw", caller, amount)
       IN  IF ~pool.emergency_withdraw_enabled
           THEN /\ last' = [r EXCEPT !.status = "ok", !.amount = 0]
                /\ stack' = Called("emergency_withdraw")
                /\ UNCHANGED <<pool, token, ledger_sum, overflow_checks>>
           ELSE \E outcome \in TransferOutcomes(PoolAccount, amount) :
                  IF outcome = "fail"
                  THEN Abort([r EXCEPT !.ts_at_transfer = pool.total_supply,
                                       !.transfers = 1], "TransferFailed")
                  ELSE /\ token' = Moved(PoolAccount, caller, amount)
                       /\ stack' = Append(Called("emergency_withdraw"), Frame(r, pool.total_supply))
                       /\ last' = Pending
                       /\ UNCHANGED <<pool, ledger_sum, overflow_checks>>

\* an emergency_withdraw that clears the flag once its transfer is made
emergency_withdraw_return_disabling ==
    /\ stack # <<>>
    /\ Top.op = "emergency_withdraw"
    /\ pool' = [pool EXCEPT !.emergency_withdraw_enabled = FALSE]
    /\ last' = Returned
    /\ stack' = Popped
    /\ UNCHANGED <<token, ledger_sum, overflow_checks>>

\* lines 92-96: the transfer returned Ok, and so does the handler
emergency_withdraw_return ==
    /\ stack # <<>>
    /\ Top.op = "emergency_withdraw"
    /\ last' = Returned
    /\ stack' = Popped
    /\ UNCHANGED <<pool, token, ledger_sum, overflow_checks>>

\* line 103: principal * pool.interest_rate * time / 100 on u64
RewardDivisor == 100

\* a calculate_rewards that stores the rewards in the pool instead of only
\* logging them
calculate_rewards_storing(principal, time) ==
    /\ CanCall
    /\ LET r == [Entered("calculate_rewards", "none", principal) EXCEPT
                    !.time = time]
           p1 == Mul(principal, pool.interest_rate)
           p2 == Mul(p1.val, time)
       IN  IF (p1.overflow \/ p2.overflow) /\ overflow_checks
           THEN Abort(r, "ArithmeticPanic")
           ELSE /\ pool' = [pool EXCEPT
                              !.total_supply = p2.val \div RewardDivisor]
                /\ last' = [r EXCEPT !.status = "ok",
                                     !.rewards = p2.val \div RewardDivisor]
                /\ stack' = Called("calculate_rewards")
                /\ UNCHANGED <<token, ledger_sum, overflow_checks>>

\* lines 99-108: the rewards are logged, nothing is stored; the accounts
\* (lines 157-160) hold the pool alone, no signer
calculate_rewards(principal, time) ==
    /\ CanCall
    /\ LET r == [Entered("calculate_rewards", "none", principal) EXCEPT
                    !.time = time]
           p1 == Mul(principal, pool.interest_rate)
           p2 == Mul(p1.val, time)
       IN  IF (p1.overflow \/ p2.overflow) /\ overflow_checks
           THEN Abort(r, "ArithmeticPanic")
           ELSE /\ last' = [r EXCEPT !.status = "ok",
                                     !.rewards = p2.val \div RewardDivisor]
                /\ stack' = Called("calculate_rewards")
                /\ UNCHANGED <<pool, token, ledger_sum, overflow_checks>>

Init ==
    /\ pool \in [total_supply : {0}, interest_rate : Rates, admin : {"A"},
                 emergency_withdraw_enabled : BOOLEAN]
    /\ token = [a \in TokenAccounts |->
                  CASE a = "A" -> BalanceA [] a = "U" -> BalanceU [] OTHER -> 0]
    /\ stack = <<>>
    /\ ledger_sum = 0
    /\ overflow_checks \in BOOLEAN
    /\ last = Pending

Next ==
    \/ \E c \in Users, r \in Rates : set_interest_rate(c, r)
    \/ \E c \in Users, a \in DepositAmounts : deposit(c, a)
    \/ deposit_return
    \/ \E c \in Users, a \in WithdrawAmounts : withdraw(c, a)
    \/ withdraw_return
    \/ \E c \in Users : emergency_withdraw(c)
    \/ emergency_withdraw_return
    \/ \E p \in Principals, t \in Times : calculate_rewards(p, t)

Spec == Init /\ [][Next]_vars

\* ------------------------------------------------------------------ claims
\* The program defines no error codes: a handler fails with the token
\* program's error out of `?` or with a panic.  A claim that names the error
\* a call fails with is read as satisfied by either.
Fails(kinds) ==
    /\ last.status = "err"
    /\ last.code \in kinds \cup {"TransferFailed", "ArithmeticPanic"}

AtRest == stack = <<>>

\* what user `u` has put into the pool and not taken out, by the balances `tok`
Share(tok, u) ==
    (CASE u = "A" -> BalanceA [] u = "U" -> BalanceU [] OTHER -> 0) - tok[u]

\* C1: set_interest_rate by a caller other than the pool's admin fails
\* Unauthorized and leaves interest_rate as it was.
C1_NonAdminSetRateRejected ==
    (last.op = "set_interest_rate" /\ last.caller # last.pre_pool.admin)
        => /\ Fails({"Unauthorized"})
           /\ pool.interest_rate = last.pre_pool.interest_rate

\* C2: a withdraw invoked from inside the transfer of a withdraw fails
\* Reentrant, moves no tokens and leaves the ledger alone; the outer withdraw
\* then ends with total_supply reduced by its own amount, one transfer made.
C2_NestedWithdrawRejected ==
    /\ (last.op = "withdraw" /\ last.parent = "withdraw")
          => /\ Fails({"Reentrant"})
             /\ token = last.pre_token
             /\ pool = last.pre_pool
    /\ (last.op = "withdraw" /\ last.depth = 0 /\ last.status = "ok"
            /\ "withdraw" \in last.called)
          => /\ pool.total_supply = last.pre_pool.total_supply - last.amount
             /\ token[PoolAccount] = last.pre_token[PoolAccount] - last.amount

\* C3: in every successful withdraw(amount) the total_supply that is in the
\* ledger when the transfer is invoked is already the reduced one.
C3_DeductionBeforeTransfer ==
    (last.op = "withdraw" /\ last.status = "ok")
        => last.ts_at_transfer = last.pre_pool.total_supply - last.amount

\* C4: after any sequence of operations total_supply is the initial supply
\* plus the successful deposits minus the successful withdrawals, as
\* unbounded integers, and lies in 0 .. 2^64 - 1.
C4_SupplyIsLedgerSum ==
    AtRest => (pool.total_supply = ledger_sum /\ pool.total_supply \in U64)

\* C5: withdraw(amount) with amount > total_supply fails InsufficientFunds or
\* Underflow; no tokens leave the pool account and total_supply is unchanged.
C5_OverdrawRejected ==
    (last.op = "withdraw" /\ last.amount > last.pre_pool.total_supply)
        => /\ Fails({"InsufficientFunds", "Underflow"})
           /\ token[PoolAccount] = last.pre_token[PoolAccount]
           /\ pool.total_supply = last.pre_pool.total_supply

\* C6: with the emergency flag set and the pool holding the shares of several
\* users, emergency_withdraw by U sends U its own share, not the pool
\* account's whole balance, and no other user's share changes.
C6_EmergencyOwnShareOnly ==
    (/\ last.op = "emergency_withdraw" /\ last.status = "ok"
     /\ last.pre_pool.emergency_withdraw_enabled
     /\ \A u \in Users : Share(last.pre_token, u) > 0)
        => /\ last.sent = Share(last.pre_token, last.caller)
           /\ last.sent < last.pre_token[PoolAccount]
           /\ \A u \in Users \ {last.caller} :
                 Share(token, u) = Share(last.pre_token, u)

\* floor(principal * interest_rate * time / 100) over the integers
ExactRewards == (last.amount * last.pre_pool.interest_rate * last.time) \div 100

\* C7: whenever floor(principal * interest_rate * time / 100) fits in a u64,
\* calculate_rewards succeeds and yields it, also when the product does not
\* fit; it fails Overflow only when the result does not fit.
C7_RewardsExact ==
    last.op = "calculate_rewards"
        => /\ ExactRewards <= MaxU64
                => (last.status = "ok" /\ last.rewards = ExactRewards)
           /\ last.status = "err"
                => (Fails({"Overflow"}) /\ ExactRewards > MaxU64)

\* C8: whenever no operation is mid-flight, total_supply is the balance of
\* the pool's custody token account.
C8_SupplyIsCustodyBalance ==
    AtRest => pool.total_supply = token[PoolAccount]

C10_DepositOverflowRejected ==
    (last.op = "deposit" /\ last.pre_pool.total_supply + last.amount > MaxU64)
        => /\ Fails({"Overflow"})
           /\ token = last.pre_token
           /\ pool.total_supply = last.pre_pool.total_supply

\* C11: with emergency_withdraw_enabled false, emergency_withdraw by any
\* caller fails NotEnabled instead of reporting success, makes no transfer
\* and leaves the ledger unchanged.
C11_DisabledEmergencyFails ==
    (last.op = "emergency_withdraw"
        /\ ~last.pre_pool.emergency_withdraw_enabled)
        => /\ Fails({"NotEnabled"})
           /\ last.transfers = 0
           /\ token = last.pre_token
           /\ pool = last.pre_pool

\* C12: deposit(0) by any caller fails InvalidInput and leaves total_supply
\* and the token balances as they were.
C12_ZeroDepositRejected ==
    (last.op = "deposit" /\ last.amount = 0)
        => /\ Fails({"InvalidInput"})
           /\ token = last.pre_token
           /\ pool.total_supply = last.pre_pool.total_supply

\* C13: withdraw(amount) by a caller whose entitlement (what the caller has
\* put into the pool and not taken out) is less than amount fails
\* InsufficientFunds before anything is stored or moved, also when amount is
\* no more than total_supply and also when re-entered.
C13_WithdrawWithinEntitlement ==
    (last.op = "withdraw"
        /\ last.amount > Share(last.pre_token, last.caller)
        /\ last.amount <= last.pre_pool.total_supply)
        => /\ Fails({"InsufficientFunds"})
           /\ token = last.pre_token
           /\ pool = last.pre_pool

\* C14: a successful deposit(amount) by user U leaves total_supply larger by
\* exactly amount, has made one transfer of amount from U's token account to
\* the pool's, has stored the larger total_supply before invoking it, and
\* leaves interest_rate, admin and emergency_withdraw_enabled alone.
C14_DepositEffects ==
    (last.op = "deposit" /\ last.status = "ok" /\ last.called = {})
        => /\ pool.total_supply = last.pre_pool.total_supply + last.amount
           /\ last.ts_at_transfer = last.pre_pool.total_supply + last.amount
           /\ last.transfers = 1
           /\ last.sent = last.amount
           /\ token[last.caller] = last.pre_token[last.caller] - last.amount
           /\ token[PoolAccount] = last.pre_token[PoolAccount] + last.amount
           /\ pool.interest_rate = last.pre_pool.interest_rate
           /\ pool.admin = last.pre_pool.admin
           /\ pool.emergency_withdraw_enabled
                 = last.pre_pool.emergency_withdraw_enabled

\* C15: calculate_rewards, for every input and in every state, also inside
\* the transfer of a suspended deposit, withdraw or emergency_withdraw,
\* changes no field of the pool, moves no tokens, invokes no transfer and
\* has no signer.
C15_CalculateRewardsReadOnly ==
    last.op = "calculate_rewards"
        => /\ pool = last.pre_pool
           /\ token = last.pre_token
           /\ last.transfers = 0
           /\ last.sent = 0
           /\ last.caller \notin Users

\* calculate_rewards has returned Ok inside the transfer of a handler that
\* had changed the accounts
C15_Witness ==
    /\ last.op = "calculate_rewards" /\ last.status = "ok"
    /\ last.depth > 0
    /\ last.parent \in {"deposit", "withdraw", "emergency_withdraw"}
    /\ last.pre_token # stack[1].pre_token

\* C16: set_interest_rate(new_rate) by the admin succeeds for every u64
\* new_rate, stores exactly new_rate in interest_rate, leaves total_supply,
\* admin and emergency_withdraw_enabled alone and invokes no transfer.
C16_AdminSetsRate ==
    (last.op = "set_interest_rate" /\ last.caller = last.pre_pool.admin)
        => /\ last.status = "ok"
           /\ pool = [last.pre_pool EXCEPT !.interest_rate = last.amount]
           /\ token = last.pre_token
           /\ last.transfers = 0

\* the admin has set the largest u64 as the rate, over a different one
C16_Witness ==
    /\ last.op = "set_interest_rate" /\ last.status = "ok"
    /\ last.caller = last.pre_pool.admin
    /\ last.amount = MaxU64
    /\ last.pre_pool.interest_rate # MaxU64
    /\ pool.interest_rate = MaxU64

\* the step that invokes the transfer of an emergency_withdraw
EmergencyTransferMade ==
    /\ Len(stack') > Len(stack)
    /\ stack'[Len(stack')].op = "emergency_withdraw"

\* C17: no step of any handler, in any sequence or nesting, changes admin or
\* emergency_withdraw_enabled, and no emergency transfer is made while the
\* flag is clear: a pool created with the flag clear never makes one.
C17_AdminAndFlagFixed ==
    [][/\ pool'.admin = pool.admin
       /\ pool'.emergency_withdraw_enabled = pool.emergency_withdraw_enabled
       /\ EmergencyTransferMade => pool.emergency_withdraw_enabled]_vars

\* with the flag clear and tokens in the pool account, emergency_withdraw has
\* returned from inside another handler's transfer without moving any
C17_Witness ==
    /\ last.op = "emergency_withdraw" /\ last.status = "ok"
    /\ last.depth > 0
    /\ ~pool.emergency_withdraw_enabled
    /\ last.pre_token[PoolAccount] > 0
    /\ token = last.pre_token
    /\ pool.total_supply > 0
=============================================================================
